---- MODULE Spec2Model ----
(***************************************************************************)
(* Model of src/App.tsx: the image normalizer resizeImage (its dimension   *)
(* computation) and the session held by the App component (appState,       *)
(* selectedFile, previewUrl, prompt, generatedImage, error) together with  *)
(* the asynchronous handleGenerate submissions that are in flight.         *)
(*                                                                         *)
(* Nullable values are options: Null is <<>> and a present value v is      *)
(* <<v>>.  A prompt is a sequence of characters ("" is <<>>).              *)
(***************************************************************************)
EXTENDS Integers, Sequences, FiniteSets, TLC

\* ------------------------------------------------------------------ bounds
MaxSelections == 3      \* image selections (object URLs created) per behaviour
MaxTasks == 2           \* handleGenerate invocations pending at once
MaxPromptLen == 2       \* characters of a prompt
MaxDim == 6             \* intrinsic width/height of an image (normalizer runs)
MaxBound == 4           \* maxWidth/maxHeight (normalizer runs)

\* ------------------------------------------------------- program constants
DefaultMaxWidth == 1024
DefaultMaxHeight == 1024

Null == <<>>
Some(v) == <<v>>

ProcessMessage == "Failed to process image. Please try a different photo."
FallbackMessage == "Failed to generate image. Please try again."
ReadFileMessage == "Failed to read file"
LoadImageMessage == "Failed to load image for resizing"
JpegMime == "image/jpeg"

\* ------------------------------------------------------------------ inputs
\* Files the upload widget or the camera can hand over, with the intrinsic
\* dimensions their image decodes to.
Files == {"landscape", "portrait", "small", "strip"}
FileWidth(f) ==
    CASE f = "landscape" -> 4000 [] f = "portrait" -> 1500 [] f = "strip" -> 4000
      [] OTHER -> 640
FileHeight(f) ==
    CASE f = "landscape" -> 3000 [] f = "portrait" -> 2000 [] f = "strip" -> 1
      [] OTHER -> 480

Chars == {" ", "a"}
IsSpace(c) == c = " "
Prompts == UNION {[1..n -> Chars] : n \in 0..MaxPromptLen}

\* Values generateFutureSelf can resolve with (a string, possibly empty).
ResultUrls == {"data:image/png;base64,AAAA", "data:image/png;base64,BBBB", ""}

\* Values generateFutureSelf can reject with: an Error with a message, an
\* Error with an empty message, a value without a message property, and
\* null/undefined.
GenerationErrors ==
    { [kind |-> "error", message |-> Some("quota exceeded")],
      [kind |-> "error", message |-> Some("")],
      [kind |-> "value", message |-> Null],
      [kind |-> "nullish", message |-> Null] }

\* Errors resizeImage rejects with.
ResizeErrors ==
    { [kind |-> "error", message |-> Some(ReadFileMessage)],
      [kind |-> "error", message |-> Some(LoadImageMessage)] }

\* ------------------------------------------------------------------- state
VARIABLES
    appState, selectedFile, previewUrl, prompt, generatedImage, error,
    tasks,       \* handleGenerate invocations suspended at an await
    urlCount,    \* object URLs created so far
    objectUrls,  \* object URLs created and not revoked
    calls,       \* collaborator calls made by the latest accepted submission
    atSubmit,    \* the session as it was when the latest submit was accepted
    last,        \* the latest handler or completion that ran
    img, bounds, canvas, canvas2   \* runs of resizeImage's dimension computation

session == <<appState, selectedFile, previewUrl, prompt, generatedImage, error>>
vars == <<appState, selectedFile, previewUrl, prompt, generatedImage, error,
          tasks, urlCount, objectUrls, calls, atSubmit, last, img, bounds, canvas, canvas2>>
resizeVars == <<img, bounds, canvas, canvas2>>
appVars == <<appState, selectedFile, previewUrl, prompt, generatedImage, error,
             tasks, urlCount, objectUrls, calls, atSubmit, last>>

Session ==
    [appState |-> appState, selectedFile |-> selectedFile, previewUrl |-> previewUrl,
     prompt |-> prompt, generatedImage |-> generatedImage, error |-> error]

InitialSession ==
    [appState |-> "IDLE", selectedFile |-> Null, previewUrl |-> Null,
     prompt |-> <<>>, generatedImage |-> Null, error |-> Null]

\* ------------------------------------------------------------ resizeImage
\* Math.round of the positive rational n / d: floor(n / d + 1/2).
MathRound(n, d) == (2 * n + d) \div (2 * d)

\* A variant that always rescales, also images within the bounds.
ResizeDimsAlwaysScale(width, height, maxWidth, maxHeight) ==
    IF width > height
    THEN [width |-> maxWidth, height |-> MathRound(height * maxWidth, width)]
    ELSE [width |-> MathRound(width * maxHeight, height), height |-> maxHeight]

\* The canvas dimensions resizeImage computes for an image width x height.
ResizeDims(width, height, maxWidth, maxHeight) ==
    IF width > maxWidth \/ height > maxHeight
    THEN IF width > height
         THEN [width |-> maxWidth, height |-> MathRound(height * maxWidth, width)]
         ELSE [width |-> MathRound(width * maxHeight, height), height |-> maxHeight]
    ELSE [width |-> width, height |-> height]

\* The payload resizeImage(file) resolves with: the JPEG of the file's image
\* drawn on a canvas of the computed dimensions.
ResizePayload(f) ==
    LET d == ResizeDims(FileWidth(f), FileHeight(f), DefaultMaxWidth, DefaultMaxHeight)
    IN  <<f, d.width, d.height>>

\* ------------------------------------------------------------- JS helpers
RECURSIVE TrimStart(_)
TrimStart(s) == IF s # <<>> /\ IsSpace(Head(s)) THEN TrimStart(Tail(s)) ELSE s

RECURSIVE TrimEnd(_)
TrimEnd(s) ==
    IF s # <<>> /\ IsSpace(s[Len(s)]) THEN TrimEnd(SubSeq(s, 1, Len(s) - 1)) ELSE s

Trim(s) == TrimEnd(TrimStart(s))

\* Truthiness of an optional string: undefined and "" are falsy.
Truthy(opt) == opt # Null /\ opt[1] # ""

\* ------------------------------------------------------------ render gates
\* What the App component renders decides which handlers the user can reach.
\* A gate that keeps the upload widget on screen in PREVIEW as well.
IdleOrPreviewRendered == appState \in {"IDLE", "PREVIEW"}

IdleRendered == appState = "IDLE"
CapturingRendered == appState = "CAPTURING"

\* A gate that also shows the prompt form while a submission is running.
PreviewRenderedWhileGenerating ==
    appState \in {"PREVIEW", "GENERATING"} /\ previewUrl # Null

PreviewRendered == appState = "PREVIEW" /\ previewUrl # Null
\* A gate that offers the result screen's reset while a submission is running.
ResultRenderedOrGenerating ==
    \/ appState = "RESULT" /\ Truthy(generatedImage)
    \/ appState = "GENERATING"

ResultRendered == appState = "RESULT" /\ Truthy(generatedImage)

\* ---------------------------------------------------------------- handlers
\* URL.createObjectURL(file) returns a fresh URL, which stays allocated
\* until it is revoked.
handleFileSelect(file) ==
    /\ selectedFile' = Some(file)
    /\ previewUrl' = Some(urlCount + 1)
    /\ urlCount' = urlCount + 1
    /\ objectUrls' = objectUrls \cup {urlCount + 1}
    /\ appState' = "PREVIEW"
    /\ last' = [op |-> "handleFileSelect", arg |-> <<file>>]
    /\ UNCHANGED <<prompt, generatedImage, error, tasks, calls, atSubmit>>

\* A capture handler that forgets to create the preview URL.
handleCameraCaptureNoPreview(file) ==
    /\ selectedFile' = Some(file)
    /\ appState' = "PREVIEW"
    /\ last' = [op |-> "handleCameraCapture", arg |-> <<file>>]
    /\ UNCHANGED <<previewUrl, urlCount, objectUrls, prompt, generatedImage, error,
                   tasks, calls, atSubmit>>

handleCameraCapture(file) ==
    /\ selectedFile' = Some(file)
    /\ previewUrl' = Some(urlCount + 1)
    /\ urlCount' = urlCount + 1
    /\ objectUrls' = objectUrls \cup {urlCount + 1}
    /\ appState' = "PREVIEW"
    /\ last' = [op |-> "handleCameraCapture", arg |-> <<file>>]
    /\ UNCHANGED <<prompt, generatedImage, error, tasks, calls, atSubmit>>

onCameraSelect ==
    /\ appState' = "CAPTURING"
    /\ last' = [op |-> "onCameraSelect", arg |-> <<>>]
    /\ UNCHANGED <<selectedFile, previewUrl, prompt, generatedImage, error,
                   tasks, urlCount, objectUrls, calls, atSubmit>>

onCancel ==
    /\ appState' = "IDLE"
    /\ last' = [op |-> "onCancel", arg |-> <<>>]
    /\ UNCHANGED <<selectedFile, previewUrl, prompt, generatedImage, error,
                   tasks, urlCount, objectUrls, calls, atSubmit>>

setPrompt(value) ==
    /\ prompt' = value
    /\ last' = [op |-> "setPrompt", arg |-> <<value>>]
    /\ UNCHANGED <<appState, selectedFile, previewUrl, generatedImage, error,
                   tasks, urlCount, objectUrls, calls, atSubmit>>

\* A guard that forgets to trim the prompt.
SubmitGuardNoTrim(file, text) == file # Null /\ text # <<>>

\* handleGenerate goes on only with a file and a prompt that is not blank.
SubmitGuard(file, text) == file # Null /\ Trim(text) # <<>>

\* A handleGenerate without setError(null).
handleGenerateKeepsError ==
    IF ~SubmitGuard(selectedFile, prompt)
    THEN /\ last' = [op |-> "handleGenerate", arg |-> <<FALSE>>]
         /\ UNCHANGED <<appState, selectedFile, previewUrl, prompt, generatedImage,
                        error, tasks, urlCount, objectUrls, calls, atSubmit>>
    ELSE /\ Len(tasks) < MaxTasks
         /\ appState' = "GENERATING"
         /\ tasks' = Append(tasks, [pc |-> "resize", file |-> selectedFile[1],
                                    prompt |-> prompt, base64 |-> Null])
         /\ calls' = <<[fn |-> "resizeImage", arg |-> <<selectedFile[1]>>]>>
         /\ atSubmit' = Session
         /\ last' = [op |-> "handleGenerate", arg |-> <<TRUE>>]
         /\ UNCHANGED <<selectedFile, previewUrl, prompt, generatedImage, error,
                        urlCount, objectUrls>>

\* handleGenerate up to its first await: the guard, the two state updates and
\* the call of resizeImage(selectedFile).  The invocation then waits with the
\* selectedFile and prompt of the render it was created in.
handleGenerate ==
    IF ~SubmitGuard(selectedFile, prompt)
    THEN /\ last' = [op |-> "handleGenerate", arg |-> <<FALSE>>]
         /\ UNCHANGED <<appState, selectedFile, previewUrl, prompt, generatedImage,
                        error, tasks, urlCount, objectUrls, calls, atSubmit>>
    ELSE /\ Len(tasks) < MaxTasks
         /\ appState' = "GENERATING"
         /\ error' = Null
         /\ tasks' = Append(tasks, [pc |-> "resize", file |-> selectedFile[1],
                                    prompt |-> prompt, base64 |-> Null])
         /\ calls' = <<[fn |-> "resizeImage", arg |-> <<selectedFile[1]>>]>>
         /\ atSubmit' = Session
         /\ last' = [op |-> "handleGenerate", arg |-> <<TRUE>>]
         /\ UNCHANGED <<selectedFile, previewUrl, prompt, generatedImage,
                        urlCount, objectUrls>>

\* A reset that leaves the prompt text in place.
resetAppKeepsPrompt ==
    /\ appState' = "IDLE"
    /\ selectedFile' = Null
    /\ previewUrl' = Null
    /\ generatedImage' = Null
    /\ error' = Null
    /\ last' = [op |-> "resetApp", arg |-> <<>>]
    /\ UNCHANGED <<prompt, tasks, urlCount, objectUrls, calls, atSubmit>>

\* A reset that forgets setGeneratedImage(null).
resetAppKeepsResult ==
    /\ appState' = "IDLE"
    /\ selectedFile' = Null
    /\ previewUrl' = Null
    /\ prompt' = <<>>
    /\ error' = Null
    /\ last' = [op |-> "resetApp", arg |-> <<>>]
    /\ UNCHANGED <<generatedImage, tasks, urlCount, objectUrls, calls, atSubmit>>

resetApp ==
    /\ appState' = "IDLE"
    /\ selectedFile' = Null
    /\ previewUrl' = Null
    /\ generatedImage' = Null
    /\ prompt' = <<>>
    /\ error' = Null
    /\ last' = [op |-> "resetApp", arg |-> <<>>]
    /\ UNCHANGED <<tasks, urlCount, objectUrls, calls, atSubmit>>

\* ------------------------------------------- handleGenerate after an await
RemoveAt(s, i) == SubSeq(s, 1, i - 1) \o SubSeq(s, i + 1, Len(s))

\* An inner catch that lets the error of resizeImage through.
ResizeRethrowOriginal(resizeError) == resizeError

\* The inner catch: whatever resizeImage rejected with, a new Error with the
\* fixed message is thrown.
ResizeRethrow(resizeError) == [kind |-> "error", message |-> Some(ProcessMessage)]

\* err.message || "Failed to generate image. Please try again."
ErrorText(err) == IF Truthy(err.message) THEN err.message[1] ELSE FallbackMessage

\* An outer catch that also empties the prompt.
CatchOuterClearsPrompt(err) ==
    /\ error' = Some(ErrorText(err))
    /\ appState' = "PREVIEW"
    /\ prompt' = <<>>
    /\ UNCHANGED <<selectedFile, previewUrl, generatedImage>>

\* The outer catch.  Reading err.message of null or undefined throws a
\* TypeError inside the catch block: neither setError nor setAppState runs
\* and the promise of handleGenerate rejects.
CatchOuter(err) ==
    /\ IF err.kind = "nullish"
       THEN UNCHANGED <<error, appState>>
       ELSE /\ error' = Some(ErrorText(err))
            /\ appState' = "PREVIEW"
    /\ UNCHANGED <<selectedFile, previewUrl, prompt, generatedImage>>

\* A success path that shows the result screen without storing the result.
OnGenerateSuccessNotStored(resultUrl) ==
    /\ appState' = "RESULT"
    /\ UNCHANGED <<selectedFile, previewUrl, prompt, generatedImage, error>>

\* setGeneratedImage(resultUrl); setAppState(AppState.RESULT)
OnGenerateSuccess(resultUrl) ==
    /\ generatedImage' = Some(resultUrl)
    /\ appState' = "RESULT"
    /\ UNCHANGED <<selectedFile, previewUrl, prompt, error>>

\* A continuation that sends the trimmed prompt instead of the prompt as typed.
ResizeResolveTrimmedPrompt(i) ==
    LET t == tasks[i]
        payload == ResizePayload(t.file)
    IN  /\ tasks' = [tasks EXCEPT ![i] = [t EXCEPT !.pc = "generate",
                                                    !.base64 = Some(payload)]]
        /\ calls' = Append(calls, [fn |-> "generateFutureSelf",
                                   arg |-> <<payload, JpegMime, Trim(t.prompt)>>])
        /\ last' = [op |-> "resizeResolve", arg |-> <<payload>>]
        /\ UNCHANGED <<appState, selectedFile, previewUrl, prompt, generatedImage,
                       error, urlCount, objectUrls, atSubmit>>

\* resizeImage resolved: generateFutureSelf is called with the payload.
ResizeResolve(i) ==
    LET t == tasks[i]
        payload == ResizePayload(t.file)
    IN  /\ tasks' = [tasks EXCEPT ![i] = [t EXCEPT !.pc = "generate",
                                                    !.base64 = Some(payload)]]
        /\ calls' = Append(calls, [fn |-> "generateFutureSelf",
                                   arg |-> <<payload, JpegMime, t.prompt>>])
        /\ last' = [op |-> "resizeResolve", arg |-> <<payload>>]
        /\ UNCHANGED <<appState, selectedFile, previewUrl, prompt, generatedImage,
                       error, urlCount, objectUrls, atSubmit>>

\* resizeImage rejected.
ResizeReject(i, resizeError) ==
    /\ CatchOuter(ResizeRethrow(resizeError))
    /\ tasks' = RemoveAt(tasks, i)
    /\ last' = [op |-> "resizeReject", arg |-> <<resizeError>>]
    /\ UNCHANGED <<urlCount, objectUrls, calls, atSubmit>>

\* generateFutureSelf resolved.
GenerateResolve(i, resultUrl) ==
    /\ OnGenerateSuccess(resultUrl)
    /\ tasks' = RemoveAt(tasks, i)
    /\ last' = [op |-> "generateResolve", arg |-> <<resultUrl>>]
    /\ UNCHANGED <<urlCount, objectUrls, calls, atSubmit>>

\* generateFutureSelf rejected.
GenerateReject(i, err) ==
    /\ CatchOuter(err)
    /\ tasks' = RemoveAt(tasks, i)
    /\ last' = [op |-> "generateReject", arg |-> <<err>>]
    /\ UNCHANGED <<urlCount, objectUrls, calls, atSubmit>>

\* ------------------------------------------------------------------ events
FileSelected ==
    /\ IdleRendered
    /\ urlCount < MaxSelections
    /\ \E file \in Files : handleFileSelect(file)
    /\ UNCHANGED resizeVars

CameraSelected == IdleRendered /\ onCameraSelect /\ UNCHANGED resizeVars

CameraCaptured ==
    /\ CapturingRendered
    /\ urlCount < MaxSelections
    /\ \E file \in Files : handleCameraCapture(file)
    /\ UNCHANGED resizeVars

CameraCancelled == CapturingRendered /\ onCancel /\ UNCHANGED resizeVars

PromptEdited ==
    /\ PreviewRendered
    /\ \E value \in Prompts : setPrompt(value)
    /\ UNCHANGED resizeVars

\* The Generate Vision button calls handleGenerate; the handler's own guard
\* decides whether anything happens.
GenerateClicked == PreviewRendered /\ handleGenerate /\ UNCHANGED resizeVars

ResetClicked ==
    /\ PreviewRendered \/ ResultRendered
    /\ resetApp
    /\ UNCHANGED resizeVars

ResizeResolved ==
    /\ \E i \in 1..Len(tasks) : tasks[i].pc = "resize" /\ ResizeResolve(i)
    /\ UNCHANGED resizeVars

ResizeRejected ==
    /\ \E i \in 1..Len(tasks) : \E e \in ResizeErrors :
          tasks[i].pc = "resize" /\ ResizeReject(i, e)
    /\ UNCHANGED resizeVars

GenerateResolved ==
    /\ \E i \in 1..Len(tasks) : \E u \in ResultUrls :
          tasks[i].pc = "generate" /\ GenerateResolve(i, u)
    /\ UNCHANGED resizeVars

GenerateRejected ==
    /\ \E i \in 1..Len(tasks) : \E e \in GenerationErrors :
          tasks[i].pc = "generate" /\ GenerateReject(i, e)
    /\ UNCHANGED resizeVars

AppInit ==
    /\ appState = "IDLE"
    /\ selectedFile = Null
    /\ previewUrl = Null
    /\ prompt = <<>>
    /\ generatedImage = Null
    /\ error = Null
    /\ tasks = <<>>
    /\ urlCount = 0
    /\ objectUrls = {}
    /\ calls = <<>>
    /\ atSubmit = InitialSession
    /\ last = [op |-> "init", arg |-> <<>>]

Init ==
    /\ AppInit
    /\ img = [width |-> 1, height |-> 1]
    /\ bounds = [maxWidth |-> DefaultMaxWidth, maxHeight |-> DefaultMaxHeight]
    /\ canvas = Null
    /\ canvas2 = Null

Next ==
    \/ FileSelected
    \/ CameraSelected
    \/ CameraCaptured
    \/ CameraCancelled
    \/ PromptEdited
    \/ GenerateClicked
    \/ ResetClicked
    \/ ResizeResolved
    \/ ResizeRejected
    \/ GenerateResolved
    \/ GenerateRejected

Spec == Init /\ [][Next]_vars

\* ------------------------------------- runs of the dimension computation
\* resizeImage applied to an image of any size under any positive bounds,
\* and applied once more to the canvas it produced.
ResizeInit ==
    /\ AppInit
    /\ img \in [width : 1..MaxDim, height : 1..MaxDim]
    /\ bounds \in [maxWidth : 1..MaxBound, maxHeight : 1..MaxBound]
    /\ canvas = Null
    /\ canvas2 = Null

ResizeRun ==
    /\ canvas = Null
    /\ canvas' = Some(ResizeDims(img.width, img.height,
                                 bounds.maxWidth, bounds.maxHeight))
    /\ UNCHANGED <<img, bounds, canvas2>>
    /\ UNCHANGED appVars

ResizeAgain ==
    /\ canvas # Null
    /\ canvas2 = Null
    /\ canvas2' = Some(ResizeDims(canvas[1].width, canvas[1].height,
                                  bounds.maxWidth, bounds.maxHeight))
    /\ UNCHANGED <<img, bounds, canvas>>
    /\ UNCHANGED appVars

ResizeNext == ResizeRun \/ ResizeAgain

ResizeSpec == ResizeInit /\ [][ResizeNext]_vars

\* ================================================================== claims
WithinBounds(d, b) == d.width <= b.maxWidth /\ d.height <= b.maxHeight
Abs(x) == IF x < 0 THEN -x ELSE x
IsFailure(op) == op \in {"resizeReject", "generateReject"}

\* C1. Submit guard: a step in which handleGenerate is invoked while
\* selectedFile is absent or the prompt is empty or whitespace-only changes no
\* session field (appState, selectedFile, previewUrl, prompt, error,
\* generatedImage), starts no submission and calls neither resizeImage nor
\* generateFutureSelf.
C1_SubmitGuardNoOp ==
    [][(GenerateClicked /\ (selectedFile = Null \/ Trim(prompt) = <<>>))
         => UNCHANGED <<session, tasks, calls>>]_vars

\* handleGenerate has just returned early on a whitespace-only prompt.
C1_Witness ==
    /\ last.op = "handleGenerate"
    /\ last.arg = <<FALSE>>
    /\ prompt # <<>>
    /\ Trim(prompt) = <<>>
    /\ appState = "PREVIEW"

\* C2. Recovery: when a submission has failed (resizeImage or
\* generateFutureSelf rejected), prompt, selectedFile, previewUrl and
\* generatedImage are the values they had when the submit was accepted.
C2_RecoveryKeepsInput ==
    IsFailure(last.op) =>
        /\ prompt = atSubmit.prompt
        /\ selectedFile = atSubmit.selectedFile
        /\ previewUrl = atSubmit.previewUrl
        /\ generatedImage = atSubmit.generatedImage

\* A failed generation has been applied: back in PREVIEW with an error, the
\* prompt still there.
C2_Witness ==
    /\ last.op = "generateReject"
    /\ appState = "PREVIEW"
    /\ error # Null
    /\ Trim(prompt) # <<>>
    /\ selectedFile # Null

\* C3. Reset: right after resetApp the state is IDLE and selectedFile,
\* previewUrl, prompt, error and generatedImage have their initial values.
C3_ResetRestoresInitial == last.op = "resetApp" => Session = InitialSession

\* resetApp has run after a submission was made with a non-empty prompt.
C3_Witness ==
    /\ last.op = "resetApp"
    /\ atSubmit.prompt # <<>>
    /\ atSubmit.selectedFile # Null

\* C4. Every failed submission ends in PREVIEW: once a rejection of
\* resizeImage or of generateFutureSelf has been delivered, whatever value it
\* carries, the state is PREVIEW (not IDLE, not GENERATING).
C4_FailureEndsInPreview == IsFailure(last.op) => appState = "PREVIEW"

\* C5. At most one submission in flight: after every step at most one
\* handleGenerate invocation is pending, and one is added only in PREVIEW
\* while none is pending.
C5_OneSubmissionInFlight ==
    [][/\ Len(tasks') <= 1
       /\ Len(tasks') > Len(tasks) => (appState = "PREVIEW" /\ tasks = <<>>)]_vars

\* A second submission is pending after an earlier one failed.
C5_Witness == Len(tasks) = 1 /\ atSubmit.error # Null

\* C6. Success: the step in which generateFutureSelf resolves leads from
\* GENERATING to RESULT with generatedImage the returned value, selectedFile,
\* previewUrl and prompt as they were at submit, and no error.
C6_SuccessStoresResult ==
    [][(Len(tasks') < Len(tasks) /\ last'.op = "generateResolve")
         => /\ appState = "GENERATING"
            /\ appState' = "RESULT"
            /\ generatedImage' = Some(last'.arg[1])
            /\ selectedFile' = atSubmit.selectedFile
            /\ previewUrl' = atSubmit.previewUrl
            /\ prompt' = atSubmit.prompt
            /\ selectedFile' # Null
            /\ error' = Null]_vars

\* A returned result URL is stored and shown.
C6_Witness ==
    /\ last.op = "generateResolve"
    /\ appState = "RESULT"
    /\ Truthy(generatedImage)
    /\ tasks = <<>>

\* C7. Bound guarantee: for an image exceeding maxWidth or maxHeight the
\* canvas is at most maxWidth x maxHeight and has the image's aspect ratio to
\* within one pixel.
C7_BoundGuarantee ==
    (canvas # Null /\ ~WithinBounds(img, bounds)) =>
        /\ canvas[1].width <= bounds.maxWidth
        /\ canvas[1].height <= bounds.maxHeight
        /\ \/ Abs(canvas[1].height * img.width - img.height * canvas[1].width)
                 <= img.width
           \/ Abs(canvas[1].width * img.height - img.width * canvas[1].height)
                 <= img.height

\* C8. Pass-through and idempotence: for an image within the bounds the
\* canvas has exactly the image's dimensions, and resizing that canvas again
\* under the same bounds gives the same dimensions.
C8_PassThroughIdempotent ==
    WithinBounds(img, bounds) =>
        /\ canvas # Null => canvas[1] = img
        /\ canvas2 # Null => canvas2[1] = canvas[1]

\* An image strictly smaller than the bounds has been resized twice.
C8_Witness ==
    /\ canvas2 # Null
    /\ img.width < bounds.maxWidth
    /\ img.height < bounds.maxHeight
    /\ img.width # img.height

\* C9. Message mapping: after generateFutureSelf rejects, error is the
\* rejection's message if it has a non-empty one and the fallback message
\* otherwise.
C9_GenerationErrorMessage ==
    last.op = "generateReject" =>
        error = Some(IF Truthy(last.arg[1].message)
                     THEN last.arg[1].message[1]
                     ELSE FallbackMessage)

\* C10. Normalization failure: after resizeImage rejects, with either error,
\* generateFutureSelf has not been called for that submission and error is
\* exactly the fixed processing message, not the underlying one.
C10_ResizeFailureMessage ==
    last.op = "resizeReject" =>
        /\ error = Some(ProcessMessage)
        /\ error # last.arg[1].message
        /\ \A k \in 1..Len(calls) : calls[k].fn # "generateFutureSelf"
        /\ tasks = <<>>

\* A decode failure has been handled.
C10_Witness ==
    /\ last.op = "resizeReject"
    /\ last.arg[1].message = Some(LoadImageMessage)
    /\ appState = "PREVIEW"

\* C11. No terminal state: every reachable state has a way back to IDLE.  In
\* PREVIEW and in RESULT the reset button can be pressed, in CAPTURING the
\* capture can be cancelled, and in GENERATING a completion of the submission
\* is still to come (the only way on from there).
C11_PathBackToIdle ==
    /\ appState \in {"PREVIEW", "RESULT"} => ENABLED ResetClicked
    /\ appState = "CAPTURING" => ENABLED CameraCancelled
    /\ appState = "GENERATING" =>
          ENABLED (ResizeResolved \/ ResizeRejected \/ GenerateResolved \/ GenerateRejected)

\* C12. Preview-reference release: at most one object URL is unreleased at
\* any time, and none while the state is IDLE.
C12_PreviewUrlsReleased ==
    /\ Cardinality(objectUrls) <= 1
    /\ appState = "IDLE" => objectUrls = {}

IsSelection(op) == op \in {"handleFileSelect", "handleCameraCapture"}

\* C13. Re-selection while Reviewing, as claimed: in PREVIEW a new image can
\* be selected (re-upload or re-capture), and doing so leaves the state
\* PREVIEW with the error cleared.
C13_ReselectInPreview ==
    (PreviewRendered /\ urlCount < MaxSelections) =>
        ENABLED ((FileSelected \/ CameraCaptured) /\ appState' = "PREVIEW" /\ error' = Null)

\* C13, amended. An image is selected only from IDLE (upload) or CAPTURING
\* (capture), never from PREVIEW; at that point no image and no error are
\* held (a reset has discarded them), and the selection stores the new image
\* and a fresh preview and enters PREVIEW with no error.
C13_SelectionOnlyAfterReset ==
    [][urlCount' > urlCount =>
          /\ appState \in {"IDLE", "CAPTURING"}
          /\ selectedFile = Null /\ previewUrl = Null /\ error = Null
          /\ appState' = "PREVIEW"
          /\ selectedFile' = Some(last'.arg[1])
          /\ previewUrl' = Some(urlCount')
          /\ error' = Null]_vars

\* After a submission of one image and a reset, another image is selected.
C13_Witness ==
    /\ IsSelection(last.op)
    /\ urlCount >= 2
    /\ atSubmit.selectedFile # Null
    /\ atSubmit.selectedFile # selectedFile
    /\ appState = "PREVIEW"

\* C14. Submission ordering: in a submission generateFutureSelf is called at
\* most once, as the second call after resizeImage(selectedFile) resolved
\* (not while it is pending, not after it rejected), with the payload computed
\* for that file, the mime type image/jpeg and the prompt as it was when the
\* submit was accepted.
C14_SubmissionOrdering ==
    /\ Len(calls) <= 2
    /\ \A k \in 1..Len(calls) :
          calls[k].fn = "generateFutureSelf" =>
             /\ k = 2
             /\ calls[1].fn = "resizeImage"
             /\ calls[1].arg = <<atSubmit.selectedFile[1]>>
             /\ calls[k].arg = <<ResizePayload(atSubmit.selectedFile[1]), JpegMime,
                                 atSubmit.prompt>>
    /\ \A i \in 1..Len(tasks) : tasks[i].pc = "resize" => Len(calls) = 1
    /\ last.op = "resizeReject" => Len(calls) = 1

\* generateFutureSelf has been called with a prompt that has outer whitespace.
C14_Witness ==
    /\ Len(calls) = 2
    /\ calls[2].fn = "generateFutureSelf"
    /\ atSubmit.prompt # Trim(atSubmit.prompt)
    /\ Len(tasks) = 1

IsCompletion(op) ==
    op \in {"resizeResolve", "resizeReject", "generateResolve", "generateReject"}

\* C15. No escape from GENERATING: in GENERATING no user event (reset, prompt
\* edit, image selection, camera request or cancel, submit) is enabled; every
\* step taken there is a completion of the submission, which leaves the state
\* GENERATING or moves it to RESULT (generateFutureSelf resolved) or to PREVIEW
\* (a rejection); and a completion is only ever applied in GENERATING.
C15_NoEscapeFromGenerating ==
    /\ [](appState = "GENERATING" =>
            ~ENABLED (FileSelected \/ CameraSelected \/ CameraCaptured \/ CameraCancelled
                        \/ PromptEdited \/ GenerateClicked \/ ResetClicked))
    /\ [][/\ appState = "GENERATING" =>
                /\ IsCompletion(last'.op)
                /\ appState' \in {"GENERATING", "RESULT", "PREVIEW"}
                /\ appState' = "RESULT" => last'.op = "generateResolve"
                /\ appState' = "PREVIEW" => IsFailure(last'.op)
          /\ (tasks' # tasks /\ Len(tasks') <= Len(tasks)) => appState = "GENERATING"]_vars

\* The submission is between its two awaits, the session in GENERATING.
C15_Witness ==
    /\ appState = "GENERATING"
    /\ last.op = "resizeResolve"
    /\ Len(tasks) = 1

\* C16. Image selection: right after an image was selected by upload or
\* captured, the state is PREVIEW, selectedFile is that image, previewUrl is
\* the object URL just created for it, and error is null.
C16_SelectionEntersPreview ==
    IsSelection(last.op) =>
        /\ appState = "PREVIEW"
        /\ selectedFile = Some(last.arg[1])
        /\ previewUrl = Some(urlCount)
        /\ urlCount \in objectUrls
        /\ error = Null

\* An image has been captured after an earlier image was selected and dropped.
C16_Witness ==
    /\ last.op = "handleCameraCapture"
    /\ urlCount >= 2
    /\ appState = "PREVIEW"

\* C17. Error only in Reviewing: a non-null error implies the state PREVIEW,
\* and right after a submit was accepted the error is null.
C17_ErrorOnlyInPreview ==
    /\ error # Null => appState = "PREVIEW"
    /\ (last.op = "handleGenerate" /\ last.arg = <<TRUE>>) => error = Null

\* A submit has been accepted while an error of the previous one was shown.
C17_Witness ==
    /\ last.op = "handleGenerate"
    /\ last.arg = <<TRUE>>
    /\ atSubmit.error # Null
    /\ appState = "GENERATING"

\* The algorithm of the specification: both dimensions divided by
\* r = max(width / maxWidth, height / maxHeight) and rounded.
ScaledByLargerRatio(d, b) ==
    IF d.width * b.maxHeight >= d.height * b.maxWidth
    THEN [width |-> b.maxWidth, height |-> MathRound(d.height * b.maxWidth, d.width)]
    ELSE [width |-> MathRound(d.width * b.maxHeight, d.height), height |-> b.maxHeight]

\* C18. Scale-ratio choice: for an image exceeding maxWidth or maxHeight the
\* canvas has the dimensions obtained by dividing both by the larger of
\* width / maxWidth and height / maxHeight and rounding.
C18_ScaledByLargerRatio ==
    (canvas # Null /\ ~WithinBounds(img, bounds)) =>
        canvas[1] = ScaledByLargerRatio(img, bounds)

\* C19. Field/state coupling: selectedFile and previewUrl are both non-null
\* exactly in PREVIEW, GENERATING and RESULT and both null in IDLE and
\* CAPTURING; generatedImage is non-null only in RESULT; the prompt is empty
\* in IDLE and CAPTURING.
C19_FieldStateCoupling ==
    /\ (selectedFile # Null /\ previewUrl # Null)
          <=> appState \in {"PREVIEW", "GENERATING", "RESULT"}
    /\ appState \in {"IDLE", "CAPTURING"} =>
          (selectedFile = Null /\ previewUrl = Null /\ prompt = <<>>)
    /\ generatedImage # Null => appState = "RESULT"

\* The camera is open after an earlier image was submitted and reset.
C19_Witness ==
    /\ appState = "CAPTURING"
    /\ urlCount >= 1
    /\ atSubmit.prompt # <<>>

\* C20. Non-degenerate output: the payload generateFutureSelf is called with
\* comes from a canvas at least 1 pixel wide and 1 pixel high.
C20_NonDegenerateCanvas ==
    \A k \in 1..Len(calls) :
        calls[k].fn = "generateFutureSelf" =>
            (calls[k].arg[1][2] >= 1 /\ calls[k].arg[1][3] >= 1)

====
